---- MODULE Spec2Model ----
(***************************************************************************)
(* Model of the schema-migration manager (package migration, stored in     *)
(* src/pkg/uuidv7/uuidv7.go from line 69 on): the schema_migrations table,  *)
(* the migration file loader, MigrateNamespace / applyMigration,           *)
(* MigrateAll, Rollback / rollbackMigration, Version and Status.           *)
(***************************************************************************)
EXTENDS Integers, Sequences, FiniteSets, TLC

(* ------------------------------------------------------------------ *)
(* Bounds of the model                                                 *)
(* ------------------------------------------------------------------ *)

\* highest version number of a migration file in a directory
MaxVersion == 3

\* highest steps argument given to Rollback
MaxSteps == 3

\* callers of the manager (process 1 is the only caller of the sequential
\* specification)
Procs == {1, 2}

Namespaces == {"core", "modA", "modB"}

(* ------------------------------------------------------------------ *)
(* File names and strconv.Atoi                                         *)
(* ------------------------------------------------------------------ *)

Digits == <<"0", "1", "2", "3", "4", "5", "6", "7", "8", "9">>

IsDigit(c) == \E i \in 1..10 : Digits[i] = c

DigitVal(c) == (CHOOSE i \in 1..10 : Digits[i] = c) - 1

RECURSIVE DigitsValue(_, _)
\* value of a sequence of decimal digits, most significant first
DigitsValue(cs, acc) ==
    IF cs = <<>> THEN acc
    ELSE DigitsValue(Tail(cs), acc * 10 + DigitVal(Head(cs)))

AllDigits(cs) == \A i \in 1..Len(cs) : IsDigit(cs[i])

\* strconv.Atoi on a sequence of characters: an optional sign and at least
\* one decimal digit; anything else is an error
Atoi(cs) ==
    IF cs = <<>> THEN [ok |-> FALSE, val |-> 0]
    ELSE IF Head(cs) \in {"+", "-"}
         THEN IF Tail(cs) # <<>> /\ AllDigits(Tail(cs))
              THEN [ok |-> TRUE,
                    val |-> IF Head(cs) = "-" THEN 0 - DigitsValue(Tail(cs), 0)
                            ELSE DigitsValue(Tail(cs), 0)]
              ELSE [ok |-> FALSE, val |-> 0]
         ELSE IF AllDigits(cs)
              THEN [ok |-> TRUE, val |-> DigitsValue(cs, 0)]
              ELSE [ok |-> FALSE, val |-> 0]

\* the zero-padded prefix the repository writes for a version (000001_...)
Padded(v) == <<"0", "0", Digits[v + 1]>>

\* A directory entry.  name is the result of strings.Split(filename, "_")
\* with the direction suffix taken off the last part: prefix is parts[0] as a
\* sequence of characters, desc the remaining parts (empty when the name has
\* no underscore), suffix ".up.sql", ".down.sql" or something else.  content
\* is the file's text, a sequence of words; the empty text is <<>>.
File(prefix, desc, suffix, content, isDir) ==
    [prefix |-> prefix, desc |-> desc, suffix |-> suffix,
     content |-> content, isDir |-> isDir]

UpFile(v) ==
    File(Padded(v), <<"step">>, ".up.sql", <<"up">> \o Padded(v), FALSE)

DownFile(v) ==
    File(Padded(v), <<"step">>, ".down.sql", <<"down">> \o Padded(v), FALSE)

\* the empty script: DownSQL == "" is the loader's "no down-script"
NoSQL == <<>>

\* groups of entries that are not a well-formed pair of a positive version:
\* version 0, a negative version, a prefix that is no number, a name without
\* underscore, a second up-file of version 1, a file that is no script, a
\* subdirectory
OddGroups ==
    { { File(<<"0">>, <<"zero">>, ".up.sql", <<"up", "zero">>, FALSE),
        File(<<"0">>, <<"zero">>, ".down.sql", <<"down", "zero">>, FALSE) },
      { File(<<"-", "1">>, <<"neg">>, ".up.sql", <<"up", "neg">>, FALSE),
        File(<<"-", "1">>, <<"neg">>, ".down.sql", <<"down", "neg">>, FALSE) },
      { File(<<"a", "b">>, <<"x">>, ".up.sql", <<"up", "ab">>, FALSE) },
      { File(<<"9">>, <<>>, ".up.sql", <<"up", "nine">>, FALSE) },
      { File(<<"1">>, <<"other", "name">>, ".up.sql", <<"up", "dup">>, FALSE) },
      { File(<<"2">>, <<"readme">>, ".txt", <<"text">>, FALSE) },
      { File(<<"2">>, <<"sub">>, ".up.sql", <<"dir">>, TRUE) } }

(* ------------------------------------------------------------------ *)
(* loadMigrationFiles                                                  *)
(* ------------------------------------------------------------------ *)

MigrationFile(v, ns) ==
    [Version |-> v, Description |-> <<>>, Namespace |-> ns,
     UpSQL |-> NoSQL, DownSQL |-> NoSQL]

\* mutant of Entry: every file starts a new MigrationFile for its version
Entry_AlwaysNew(migrations, v, ns) == MigrationFile(v, ns)

\* migrations[version], created when nil
Entry(migrations, v, ns) ==
    IF v \in DOMAIN migrations THEN migrations[v] ELSE MigrationFile(v, ns)

Put(migrations, v, rec) ==
    [w \in DOMAIN migrations \cup {v} |-> IF w = v THEN rec ELSE migrations[w]]

\* one iteration of the loop over the directory entries
ScanFile(migrations, f, ns) ==
    IF f.isDir THEN migrations
    ELSE IF 1 + Len(f.desc) < 2 THEN migrations
    ELSE IF ~Atoi(f.prefix).ok THEN migrations
    ELSE LET v == Atoi(f.prefix).val IN
         IF f.suffix = ".up.sql"
         THEN Put(migrations, v,
                  [Entry(migrations, v, ns) EXCEPT !.UpSQL = f.content,
                                                   !.Description = f.desc])
         ELSE IF f.suffix = ".down.sql"
         THEN Put(migrations, v,
                  [Entry(migrations, v, ns) EXCEPT !.DownSQL = f.content])
         ELSE migrations

RECURSIVE ScanFiles(_, _, _)
ScanFiles(entries, migrations, ns) ==
    IF entries = <<>> THEN migrations
    ELSE ScanFiles(Tail(entries), ScanFile(migrations, Head(entries), ns), ns)

RECURSIVE MapValues(_)
\* the values of the map in the order a range loop yields them (unspecified)
MapValues(migrations) ==
    IF DOMAIN migrations = {} THEN <<>>
    ELSE LET v == CHOOSE w \in DOMAIN migrations : TRUE IN
         <<migrations[v]>> \o
         MapValues([w \in DOMAIN migrations \ {v} |-> migrations[w]])

RECURSIVE InsertByVersion_Descending(_, _)
\* mutant of InsertByVersion: the comparison of the sort is turned around
InsertByVersion_Descending(sorted, m) ==
    IF sorted = <<>> THEN <<m>>
    ELSE IF m.Version > Head(sorted).Version THEN <<m>> \o sorted
    ELSE <<Head(sorted)>> \o InsertByVersion_Descending(Tail(sorted), m)

RECURSIVE InsertByVersion(_, _)
InsertByVersion(sorted, m) ==
    IF sorted = <<>> THEN <<m>>
    ELSE IF m.Version < Head(sorted).Version THEN <<m>> \o sorted
    ELSE <<Head(sorted)>> \o InsertByVersion(Tail(sorted), m)

RECURSIVE SortByVersion(_)
\* sort.Slice(result, Version ascending)
SortByVersion(result) ==
    IF result = <<>> THEN <<>>
    ELSE InsertByVersion(SortByVersion(Tail(result)), Head(result))

EmptyMap == [w \in {} |-> 0]

\* loadMigrationFiles of a directory that exists and is readable, the
\* entries given in the order os.ReadDir returned them
LoadEntries(entries, ns) ==
    SortByVersion(MapValues(ScanFiles(entries, EmptyMap, ns)))

(* ------------------------------------------------------------------ *)
(* State                                                               *)
(* ------------------------------------------------------------------ *)

VARIABLES
    fs,          \* migrationsDir: namespace -> [exists, files]
    tableExists, \* schema_migrations has been created
    records,     \* rows of schema_migrations: [namespace, version, dirty]
    schema,      \* <<namespace, version>> whose up-script's effects are committed
    pc,          \* position of each caller
    op,          \* the public operation a caller is in, with its arguments
    cur,         \* locals: namespace, currentVersion, remaining migrations, remaining modules
    tx,          \* the caller's transaction: [open, writes]
    cancelled,   \* the caller's context has been cancelled
    ret,         \* what the caller's last operation returned
    result,      \* value returned by Version / Status
    log,         \* store events of the caller's current operation, in order
    pre,         \* the database and the namespace directories when the caller's
                 \* operation started: [records, schema, dirs]
    trip         \* observer of a run apply, roll back, apply again: [stage, steps, first, mid]

vars == <<fs, tableExists, records, schema, pc, op, cur, tx, cancelled, ret,
          result, log, pre, trip>>

Record(ns, v, d) == [namespace |-> ns, version |-> v, dirty |-> d]

RecordsOf(recs, ns) == {r \in recs : r.namespace = ns}

(* ------------------------------------------------------------------ *)
(* Version store: getCurrentVersion, setVersion, deleteVersion         *)
(* ------------------------------------------------------------------ *)

\* mutant of GetCurrentVersion: the query skips the dirty rows
GetCurrentVersion_CleanOnly(recs, ns) ==
    IF {r \in RecordsOf(recs, ns) : ~r.dirty} = {}
    THEN [version |-> 0, dirty |-> FALSE]
    ELSE LET top == CHOOSE r \in {q \in RecordsOf(recs, ns) : ~q.dirty} :
                        \A q \in {x \in RecordsOf(recs, ns) : ~x.dirty} :
                            q.version <= r.version
         IN  [version |-> top.version, dirty |-> top.dirty]

\* SELECT version, dirty ... WHERE namespace = $1 ORDER BY version DESC LIMIT 1;
\* sql.ErrNoRows gives (0, false)
GetCurrentVersion(recs, ns) ==
    IF RecordsOf(recs, ns) = {}
    THEN [version |-> 0, dirty |-> FALSE]
    ELSE LET top == CHOOSE r \in RecordsOf(recs, ns) :
                        \A q \in RecordsOf(recs, ns) : q.version <= r.version
         IN  [version |-> top.version, dirty |-> top.dirty]

\* mutant of SetVersion: ON CONFLICT (namespace, version) DO NOTHING
SetVersion_DoNothing(recs, ns, v, d) ==
    IF \E r \in recs : r.namespace = ns /\ r.version = v THEN recs
    ELSE recs \cup {Record(ns, v, d)}

\* INSERT ... ON CONFLICT (namespace, version) DO UPDATE SET dirty = $3
SetVersion(recs, ns, v, d) ==
    {r \in recs : ~(r.namespace = ns /\ r.version = v)} \cup {Record(ns, v, d)}

\* mutant of DeleteVersion: the statement matches no row
DeleteVersion_NoRow(recs, ns, v) == recs

\* mutant of DeleteVersion: the statement selects on the version only
DeleteVersion_AnyNamespace(recs, ns, v) == {r \in recs : r.version # v}

\* DELETE FROM schema_migrations WHERE namespace = $1 AND version = $2
DeleteVersion(recs, ns, v) ==
    {r \in recs : ~(r.namespace = ns /\ r.version = v)}

(* ------------------------------------------------------------------ *)
(* Directories and the order os.ReadDir yields their entries           *)
(* ------------------------------------------------------------------ *)

RECURSIVE SetToSeq(_)
SetToSeq(S) ==
    IF S = {} THEN <<>>
    ELSE LET x == CHOOSE y \in S : TRUE IN <<x>> \o SetToSeq(S \ {x})

Rotate(s, k) == [i \in 1..Len(s) |-> s[((i - 1 + k) % Len(s)) + 1]]

Reverse(s) == [i \in 1..Len(s) |-> s[Len(s) + 1 - i]]

\* the k-th enumeration order of a directory: its entries rotated by
\* k \div 2 places, reversed when k is odd
EnumerationAt(S, k) ==
    LET s == SetToSeq(S)
        n == Len(s)
    IN  IF n = 0 THEN <<>>
        ELSE IF k % 2 = 0 THEN Rotate(s, (k \div 2) % n)
        ELSE Reverse(Rotate(s, (k \div 2) % n))

\* number of enumeration orders tried for a directory
MaxOrders == 4

\* highest version of a directory of the coordinator's specification
MaxPlain == 1

\* highest version of the directory two concurrent callers work on
MaxRace == 2

EnumerationIndices == 0..(MaxOrders - 1)

\* mutant of LoadMigrationFiles: without the os.Stat check a missing
\* directory is an error of os.ReadDir
LoadMigrationFiles_NoStat(ns, k, failed) ==
    IF ~fs[ns].exists \/ failed THEN [err |-> TRUE, files |-> <<>>]
    ELSE [err |-> FALSE, files |-> LoadEntries(EnumerationAt(fs[ns].files, k), ns)]

\* loadMigrationFiles(namespace) with the k-th enumeration order; failed is
\* an error of os.ReadDir or os.ReadFile, possible only when the directory
\* exists
LoadMigrationFiles(ns, k, failed) ==
    IF ~fs[ns].exists THEN [err |-> FALSE, files |-> <<>>]
    ELSE IF failed THEN [err |-> TRUE, files |-> <<>>]
    ELSE [err |-> FALSE, files |-> LoadEntries(EnumerationAt(fs[ns].files, k), ns)]

LoadResults(ns) ==
    {LoadMigrationFiles(ns, k, failed) : k \in EnumerationIndices, failed \in BOOLEAN}

(* ------------------------------------------------------------------ *)
(* Initial state                                                       *)
(* ------------------------------------------------------------------ *)

Base(n) == {UpFile(v) : v \in 1..n} \cup {DownFile(v) : v \in 1..n}

Dir(files) == [exists |-> TRUE, files |-> files]

NoDir == [exists |-> FALSE, files |-> {}]

\* directories of the module namespace: versions 1..n complete, or with one
\* version lacking its down-file, its up-file or both, or with one odd group
RichDirs ==
    {NoDir}
    \cup {Dir(Base(n)) : n \in 0..MaxVersion}
    \cup {Dir(Base(n) \ {DownFile(v)}) : n \in 1..MaxVersion, v \in 1..MaxVersion}
    \cup {Dir(Base(n) \ {UpFile(v)}) : n \in 1..MaxVersion, v \in 1..MaxVersion}
    \cup {Dir(Base(n) \ {UpFile(v), DownFile(v)}) : n \in 2..MaxVersion, v \in 1..MaxVersion}
    \cup {Dir(Base(2) \cup g) : g \in OddGroups}

NoCall == [name |-> "none", ns |-> "core", steps |-> 0, modules |-> <<>>]

\* todo: the migrations still to apply or roll back, the head being the one
\* at work; all: the whole selection (the slices pending and toRollback)
NoLocals ==
    [ns |-> "core", currentVersion |-> 0, todo |-> <<>>, all |-> <<>>, rest |-> <<>>]

NoTx == [open |-> FALSE, writes |-> {}]

NoResult == [version |-> 0, status |-> <<>>]

NoTrip == [stage |-> 0, steps |-> 0, first |-> {}, mid |-> {}]

\* everything but the directories: an empty database, no caller at work
Fresh ==
    /\ tableExists = FALSE
    /\ records = {}
    /\ schema = {}
    /\ pc = [p \in Procs |-> "idle"]
    /\ op = [p \in Procs |-> NoCall]
    /\ cur = [p \in Procs |-> NoLocals]
    /\ tx = [p \in Procs |-> NoTx]
    /\ cancelled = [p \in Procs |-> FALSE]
    /\ ret = [p \in Procs |-> "none"]
    /\ result = [p \in Procs |-> NoResult]
    /\ log = [p \in Procs |-> <<>>]
    /\ pre = [p \in Procs |-> [records |-> {}, schema |-> {}, dirs |-> {}]]
    /\ trip = NoTrip

Layout(core, modA, modB) ==
    [ns \in Namespaces |->
        IF ns = "core" THEN core ELSE IF ns = "modA" THEN modA ELSE modB]

\* one module with any of the rich directories, beside an unapplied core
Init ==
    /\ fs \in {Layout(Dir(Base(1)), a, NoDir) : a \in RichDirs}
    /\ Fresh

(* ------------------------------------------------------------------ *)
(* Helpers of the actions                                              *)
(* ------------------------------------------------------------------ *)

Event(ev, ns, v, ok) == [ev |-> ev, ns |-> ns, v |-> v, ok |-> ok]

\* outcomes of a call that takes the caller's context: it succeeds, fails
\* with an error of the store, or fails because the context is cancelled
Outcomes == {"ok", "fail", "cancelled"}

\* the error of a store call on schema_migrations that did not succeed: the
\* call itself failed, or it was made and the table does not exist
StoreError(o) == IF o = "ok" THEN "notable" ELSE "store"

\* cancelled[p] records that the store call just made found the context of
\* the operation cancelled
Observe(p, o) == cancelled' = [cancelled EXCEPT ![p] = (o = "cancelled")]

Running(p) == pc[p] # "idle"

\* the operation returns r to its caller
Return(p, r) ==
    /\ pc' = [pc EXCEPT ![p] = "idle"]
    /\ ret' = [ret EXCEPT ![p] = r]

\* the migration the caller's apply or rollback unit is working on
Mig(p) == Head(cur[p].todo)

\* begin of a public operation: fresh context, locals and event log
Begin(p, call, first) ==
    /\ pc[p] = "idle"
    /\ pc' = [pc EXCEPT ![p] = first]
    /\ op' = [op EXCEPT ![p] = call]
    /\ cur' = [cur EXCEPT ![p] = [NoLocals EXCEPT !.ns = call.ns, !.rest = call.modules]]
    /\ tx' = [tx EXCEPT ![p] = NoTx]
    /\ cancelled' = [cancelled EXCEPT ![p] = FALSE]
    /\ ret' = [ret EXCEPT ![p] = "none"]
    /\ result' = [result EXCEPT ![p] = NoResult]
    /\ log' = [log EXCEPT ![p] = <<>>]
    /\ pre' = [pre EXCEPT ![p] = [records |-> records, schema |-> schema,
                                  dirs |-> {ns \in Namespaces : fs[ns].exists}]]
    /\ UNCHANGED <<fs, tableExists, records, schema>>

\* mutant of FinishNamespace: MigrateAll leaves out every second module
FinishNamespace_SkipsOne(p) ==
    IF op[p].name = "MigrateAll" /\ Len(cur[p].rest) >= 2
    THEN /\ pc' = [pc EXCEPT ![p] = "mn_ensure"]
         /\ cur' = [cur EXCEPT ![p] = [NoLocals EXCEPT !.ns = cur[p].rest[2],
                                                       !.rest = Tail(Tail(cur[p].rest))]]
         /\ ret' = ret
    ELSE /\ Return(p, "ok")
         /\ cur' = [cur EXCEPT ![p].todo = <<>>]

\* MigrateNamespace returned nil: MigrateAll goes on with the next enabled
\* module, otherwise the operation returns nil
FinishNamespace(p) ==
    IF op[p].name = "MigrateAll" /\ cur[p].rest # <<>>
    THEN /\ pc' = [pc EXCEPT ![p] = "mn_ensure"]
         /\ cur' = [cur EXCEPT ![p] = [NoLocals EXCEPT !.ns = Head(cur[p].rest),
                                                       !.rest = Tail(cur[p].rest)]]
         /\ ret' = ret
    ELSE /\ Return(p, "ok")
         /\ cur' = [cur EXCEPT ![p].todo = <<>>]

\* tx.Rollback() of the deferred function
RolledBack(p, m) ==
    /\ tx' = [tx EXCEPT ![p] = NoTx]
    /\ log' = [log EXCEPT ![p] = @ \o m \o <<Event("rollback", cur[p].ns, Mig(p).Version, TRUE)>>]

(* ------------------------------------------------------------------ *)
(* MigrateNamespace, MigrateAll                                        *)
(* ------------------------------------------------------------------ *)

MigrateNamespaceCall(ns) ==
    [name |-> "MigrateNamespace", ns |-> ns, steps |-> 0, modules |-> <<>>]

StartMigrateNamespace(p, ns) ==
    /\ Begin(p, MigrateNamespaceCall(ns), "mn_ensure")
    /\ UNCHANGED trip

\* mutant of StartMigrateAll: the call starts with the first listed module
\* when there is one
StartMigrateAll_ListFirst(p, modules) ==
    /\ modules # <<>>
    /\ Begin(p, [name |-> "MigrateAll", ns |-> Head(modules), steps |-> 0,
                 modules |-> modules], "mn_ensure")
    /\ UNCHANGED trip

\* MigrateAll: "core" first, then the enabled modules in the given order
StartMigrateAll(p, modules) ==
    /\ Begin(p, [name |-> "MigrateAll", ns |-> "core", steps |-> 0, modules |-> modules],
             "mn_ensure")
    /\ UNCHANGED trip

\* ensureMigrationsTable
MnEnsure(p) ==
    /\ pc[p] = "mn_ensure"
    /\ \E o \in Outcomes :
       /\ Observe(p, o)
       /\ IF o = "ok"
         THEN /\ tableExists' = TRUE
              /\ pc' = [pc EXCEPT ![p] = "mn_getver"]
              /\ ret' = ret
         ELSE /\ Return(p, "store")
              /\ tableExists' = tableExists
    /\ UNCHANGED <<trip, fs, records, schema, op, cur, tx, result, log, pre>>

\* mutant of MnGetVersion: a dirty version is taken up again
MnGetVersion_RetriesDirty(p) ==
    /\ pc[p] = "mn_getver"
    /\ \E o \in Outcomes :
       /\ Observe(p, o)
       /\ IF o = "ok" /\ tableExists
          THEN LET cv == GetCurrentVersion(records, cur[p].ns) IN
               /\ pc' = [pc EXCEPT ![p] = "mn_load"]
               /\ cur' = [cur EXCEPT ![p].currentVersion =
                             IF cv.dirty THEN cv.version - 1 ELSE cv.version]
               /\ ret' = ret
          ELSE /\ Return(p, StoreError(o))
               /\ cur' = cur
    /\ UNCHANGED <<trip, fs, tableExists, records, schema, op, tx, result, log, pre>>

\* mutant of MnGetVersion: the dirty flag is not looked at
MnGetVersion_NoDirtyCheck(p) ==
    /\ pc[p] = "mn_getver"
    /\ \E o \in Outcomes :
       /\ Observe(p, o)
       /\ IF o = "ok" /\ tableExists
          THEN /\ pc' = [pc EXCEPT ![p] = "mn_load"]
               /\ cur' = [cur EXCEPT ![p].currentVersion =
                             GetCurrentVersion(records, cur[p].ns).version]
               /\ ret' = ret
          ELSE /\ Return(p, StoreError(o))
               /\ cur' = cur
    /\ UNCHANGED <<trip, fs, tableExists, records, schema, op, tx, result, log, pre>>

\* getCurrentVersion and the dirty check
MnGetVersion(p) ==
    /\ pc[p] = "mn_getver"
    /\ \E o \in Outcomes :
       /\ Observe(p, o)
       /\ IF o = "ok" /\ tableExists
         THEN LET cv == GetCurrentVersion(records, cur[p].ns) IN
              IF cv.dirty
              THEN /\ Return(p, "dirty")
                   /\ cur' = [cur EXCEPT ![p].currentVersion = cv.version]
              ELSE /\ pc' = [pc EXCEPT ![p] = "mn_load"]
                   /\ cur' = [cur EXCEPT ![p].currentVersion = cv.version]
                   /\ ret' = ret
         ELSE /\ Return(p, StoreError(o))
              /\ cur' = cur
    /\ UNCHANGED <<trip, fs, tableExists, records, schema, op, tx, result, log, pre>>

\* mutant of Pending: the current version counts as pending
Pending_Inclusive(files, currentVersion) ==
    SelectSeq(files, LAMBDA m : m.Version >= currentVersion)

\* the migrations with Version > currentVersion, in the loader's order
Pending(files, currentVersion) ==
    SelectSeq(files, LAMBDA m : m.Version > currentVersion)

\* loadMigrationFiles, the selection of the pending migrations and the two
\* early returns
MnLoad(p) ==
    /\ pc[p] = "mn_load"
    /\ \E r \in LoadResults(cur[p].ns) :
         IF r.err
         THEN /\ Return(p, "load")
              /\ cur' = cur
         ELSE IF Len(r.files) = 0 \/ Len(Pending(r.files, cur[p].currentVersion)) = 0
         THEN FinishNamespace(p)
         ELSE /\ pc' = [pc EXCEPT ![p] = "am_begin"]
              /\ cur' = [cur EXCEPT ![p].todo = Pending(r.files, cur[p].currentVersion),
                                     ![p].all = Pending(r.files, cur[p].currentVersion)]
              /\ ret' = ret
    /\ UNCHANGED <<trip, fs, tableExists, records, schema, op, tx, cancelled, result, log, pre>>

\* mutant of AmBegin: the unit begins no transaction
AmBegin_NoTransaction(p) ==
    /\ pc[p] = "am_begin"
    /\ \E o \in Outcomes :
       /\ Observe(p, o)
       /\ IF o = "ok"
          THEN /\ pc' = [pc EXCEPT ![p] = "am_dirty"]
               /\ UNCHANGED <<tx, log, ret>>
          ELSE /\ Return(p, "store")
               /\ UNCHANGED <<tx, log>>
    /\ UNCHANGED <<trip, fs, tableExists, records, schema, op, cur, result, pre>>

\* applyMigration: m.db.BeginTxx
AmBegin(p) ==
    /\ pc[p] = "am_begin"
    /\ \E o \in Outcomes :
       /\ Observe(p, o)
       /\ IF o = "ok"
         THEN /\ tx' = [tx EXCEPT ![p] = [open |-> TRUE, writes |-> {}]]
              /\ log' = [log EXCEPT ![p] = Append(@, Event("begin", cur[p].ns, Mig(p).Version, TRUE))]
              /\ pc' = [pc EXCEPT ![p] = "am_dirty"]
              /\ ret' = ret
         ELSE /\ Return(p, "store")
              /\ UNCHANGED <<tx, log>>
    /\ UNCHANGED <<trip, fs, tableExists, records, schema, op, cur, result, pre>>

\* mutant of AmMarkDirty: the dirty marker is not written
AmMarkDirty_Skipped(p) ==
    /\ pc[p] = "am_dirty"
    /\ \E o \in Outcomes :
       /\ Observe(p, o)
       /\ IF o = "ok" /\ tableExists
          THEN /\ records' = records
               /\ pc' = [pc EXCEPT ![p] = "am_exec"]
               /\ UNCHANGED <<tx, ret, log>>
          ELSE /\ RolledBack(p, <<>>)
               /\ Return(p, StoreError(o))
               /\ records' = records
    /\ UNCHANGED <<trip, fs, tableExists, schema, op, cur, result, pre>>

\* applyMigration: setVersion(dirty = true) on m.db, outside the transaction
AmMarkDirty(p) ==
    /\ pc[p] = "am_dirty"
    /\ \E o \in Outcomes :
       /\ Observe(p, o)
       /\ IF o = "ok" /\ tableExists
         THEN /\ records' = SetVersion(records, cur[p].ns, Mig(p).Version, TRUE)
              /\ log' = [log EXCEPT ![p] = Append(@, Event("set_dirty", cur[p].ns, Mig(p).Version, TRUE))]
              /\ pc' = [pc EXCEPT ![p] = "am_exec"]
              /\ UNCHANGED <<tx, ret>>
         ELSE /\ RolledBack(p, <<>>)
              /\ Return(p, StoreError(o))
              /\ records' = records
    /\ UNCHANGED <<trip, fs, tableExists, schema, op, cur, result, pre>>

\* mutant of AmExec: the rollback of the transaction takes the dirty record
\* with it
AmExec_DropsMarker(p) ==
    /\ pc[p] = "am_exec"
    /\ \E o \in Outcomes :
       /\ Observe(p, o)
       /\ IF o = "ok"
          THEN /\ tx' = [tx EXCEPT ![p].writes = @ \cup {<<"up", cur[p].ns, Mig(p).Version>>}]
               /\ log' = [log EXCEPT ![p] = Append(@, Event("up", cur[p].ns, Mig(p).Version, TRUE))]
               /\ pc' = [pc EXCEPT ![p] = "am_clean"]
               /\ UNCHANGED <<ret, records>>
          ELSE /\ RolledBack(p, <<Event("up", cur[p].ns, Mig(p).Version, FALSE)>>)
               /\ Return(p, "script")
               /\ records' = DeleteVersion(records, cur[p].ns, Mig(p).Version)
    /\ UNCHANGED <<trip, fs, tableExists, schema, op, cur, result, pre>>

\* mutant of AmExec: a script that failed is executed a second time
AmExec_Retries(p) ==
    /\ pc[p] = "am_exec"
    /\ \E o \in Outcomes :
       /\ Observe(p, o)
       /\ IF o = "ok"
          THEN /\ tx' = [tx EXCEPT ![p].writes = @ \cup {<<"up", cur[p].ns, Mig(p).Version>>}]
               /\ log' = [log EXCEPT ![p] = Append(@, Event("up", cur[p].ns, Mig(p).Version, TRUE))]
               /\ pc' = [pc EXCEPT ![p] = "am_clean"]
               /\ ret' = ret
          ELSE IF \A i \in 1..Len(log[p]) : log[p][i].ok
          THEN /\ log' = [log EXCEPT ![p] = Append(@, Event("up", cur[p].ns, Mig(p).Version, FALSE))]
               /\ UNCHANGED <<tx, pc, ret>>
          ELSE /\ RolledBack(p, <<Event("up", cur[p].ns, Mig(p).Version, FALSE)>>)
               /\ Return(p, "script")
    /\ UNCHANGED <<trip, fs, tableExists, records, schema, op, cur, result, pre>>

\* applyMigration: tx.ExecContext(mig.UpSQL)
AmExec(p) ==
    /\ pc[p] = "am_exec"
    /\ \E o \in Outcomes :
       /\ Observe(p, o)
       /\ IF o = "ok"
         THEN /\ tx' = [tx EXCEPT ![p].writes = @ \cup {<<"up", cur[p].ns, Mig(p).Version>>}]
              /\ log' = [log EXCEPT ![p] = Append(@, Event("up", cur[p].ns, Mig(p).Version, TRUE))]
              /\ pc' = [pc EXCEPT ![p] = "am_clean"]
              /\ ret' = ret
         ELSE /\ RolledBack(p, <<Event("up", cur[p].ns, Mig(p).Version, FALSE)>>)
              /\ Return(p, "script")
    /\ UNCHANGED <<trip, fs, tableExists, records, schema, op, cur, result, pre>>

\* mutant of AmMarkClean: the record is left dirty
AmMarkClean_Skipped(p) ==
    /\ pc[p] = "am_clean"
    /\ \E o \in Outcomes :
       /\ Observe(p, o)
       /\ IF o = "ok" /\ tableExists
          THEN /\ records' = records
               /\ log' = [log EXCEPT ![p] = Append(@, Event("set_clean", cur[p].ns, Mig(p).Version, TRUE))]
               /\ pc' = [pc EXCEPT ![p] = "am_commit"]
               /\ UNCHANGED <<tx, ret>>
          ELSE /\ RolledBack(p, <<>>)
               /\ Return(p, StoreError(o))
               /\ records' = records
    /\ UNCHANGED <<trip, fs, tableExists, schema, op, cur, result, pre>>

\* applyMigration: setVersion(dirty = false) on m.db, before the commit
AmMarkClean(p) ==
    /\ pc[p] = "am_clean"
    /\ \E o \in Outcomes :
       /\ Observe(p, o)
       /\ IF o = "ok" /\ tableExists
         THEN /\ records' = SetVersion(records, cur[p].ns, Mig(p).Version, FALSE)
              /\ log' = [log EXCEPT ![p] = Append(@, Event("set_clean", cur[p].ns, Mig(p).Version, TRUE))]
              /\ pc' = [pc EXCEPT ![p] = "am_commit"]
              /\ UNCHANGED <<tx, ret>>
         ELSE /\ RolledBack(p, <<>>)
              /\ Return(p, StoreError(o))
              /\ records' = records
    /\ UNCHANGED <<trip, fs, tableExists, schema, op, cur, result, pre>>

\* the effect of committing a transaction's writes on the database
Commit(db, writes) ==
    (db \cup {<<w[2], w[3]>> : w \in {x \in writes : x[1] = "up"}})
        \ {<<w[2], w[3]>> : w \in {x \in writes : x[1] = "down"}}

\* mutant of AmCommit: MigrateNamespace returns nil after the first unit
AmCommit_StopsAfterOne(p) ==
    /\ pc[p] = "am_commit"
    /\ \E o \in Outcomes :
       /\ Observe(p, o)
       /\ IF o = "ok"
         THEN /\ schema' = Commit(schema, tx[p].writes)
              /\ log' = [log EXCEPT ![p] = Append(@, Event("commit", cur[p].ns, Mig(p).Version, TRUE))]
              /\ FinishNamespace(p)
         ELSE /\ schema' = schema
              /\ log' = [log EXCEPT ![p] = Append(@, Event("commit", cur[p].ns, Mig(p).Version, FALSE))]
              /\ Return(p, "commit")
              /\ cur' = cur
    /\ tx' = [tx EXCEPT ![p] = NoTx]
    /\ UNCHANGED <<trip, fs, tableExists, records, op, result, pre>>

\* applyMigration: tx.Commit(), then the next pending migration
AmCommit(p) ==
    /\ pc[p] = "am_commit"
    /\ \E o \in Outcomes :
       /\ Observe(p, o)
       /\ IF o = "ok"
         THEN /\ schema' = Commit(schema, tx[p].writes)
              /\ log' = [log EXCEPT ![p] = Append(@, Event("commit", cur[p].ns, Mig(p).Version, TRUE))]
              /\ IF Tail(cur[p].todo) = <<>>
                 THEN FinishNamespace(p)
                 ELSE /\ pc' = [pc EXCEPT ![p] = "am_begin"]
                      /\ cur' = [cur EXCEPT ![p].todo = Tail(@)]
                      /\ ret' = ret
         ELSE /\ schema' = schema
              /\ log' = [log EXCEPT ![p] = Append(@, Event("commit", cur[p].ns, Mig(p).Version, FALSE))]
              /\ Return(p, "commit")
              /\ cur' = cur
    /\ tx' = [tx EXCEPT ![p] = NoTx]
    /\ UNCHANGED <<trip, fs, tableExists, records, op, result, pre>>

(* ------------------------------------------------------------------ *)
(* Rollback                                                            *)
(* ------------------------------------------------------------------ *)

StepsArgs == (0 - 1)..MaxSteps

RollbackCall(ns, steps) ==
    [name |-> "Rollback", ns |-> ns, steps |-> steps, modules |-> <<>>]

StartRollback(p, ns, steps) ==
    /\ Begin(p, RollbackCall(ns, steps), "rb_getver")
    /\ UNCHANGED trip

\* mutant of RbGetVersion: the dirty flag is not looked at
RbGetVersion_NoDirtyCheck(p) ==
    /\ pc[p] = "rb_getver"
    /\ \E o \in Outcomes :
       /\ Observe(p, o)
       /\ IF o = "ok" /\ tableExists
          THEN LET cv == GetCurrentVersion(records, cur[p].ns) IN
               /\ cur' = [cur EXCEPT ![p].currentVersion = cv.version]
               /\ IF cv.version = 0 THEN Return(p, "ok")
                  ELSE /\ pc' = [pc EXCEPT ![p] = "rb_load"]
                       /\ ret' = ret
          ELSE /\ Return(p, StoreError(o))
               /\ cur' = cur
    /\ UNCHANGED <<trip, fs, tableExists, records, schema, op, tx, result, log, pre>>

\* getCurrentVersion, the dirty check and the currentVersion == 0 return
RbGetVersion(p) ==
    /\ pc[p] = "rb_getver"
    /\ \E o \in Outcomes :
       /\ Observe(p, o)
       /\ IF o = "ok" /\ tableExists
         THEN LET cv == GetCurrentVersion(records, cur[p].ns) IN
              /\ cur' = [cur EXCEPT ![p].currentVersion = cv.version]
              /\ IF cv.dirty THEN Return(p, "dirty")
                 ELSE IF cv.version = 0 THEN Return(p, "ok")
                 ELSE /\ pc' = [pc EXCEPT ![p] = "rb_load"]
                      /\ ret' = ret
         ELSE /\ Return(p, StoreError(o))
              /\ cur' = cur
    /\ UNCHANGED <<trip, fs, tableExists, records, schema, op, tx, result, log, pre>>

RECURSIVE CollectRollback(_, _, _, _, _)
\* for i := len(migrations) - 1; i >= 0; i-- (i is 1-based here)
CollectRollback(migrations, i, currentVersion, steps, toRollback) ==
    IF i = 0 THEN toRollback
    ELSE CollectRollback(migrations, i - 1, currentVersion, steps,
             IF migrations[i].Version <= currentVersion /\ Len(toRollback) < steps
             THEN Append(toRollback, migrations[i])
             ELSE toRollback)

\* mutant of ToRollback: the selection is in ascending order
ToRollback_Ascending(migrations, currentVersion, steps) ==
    Reverse(CollectRollback(migrations, Len(migrations), currentVersion, steps, <<>>))

ToRollback(migrations, currentVersion, steps) ==
    CollectRollback(migrations, Len(migrations), currentVersion, steps, <<>>)

\* loadMigrationFiles and the selection of the migrations to roll back
RbLoad(p) ==
    /\ pc[p] = "rb_load"
    /\ \E r \in LoadResults(cur[p].ns) :
         IF r.err
         THEN /\ Return(p, "load")
              /\ cur' = cur
         ELSE IF Len(ToRollback(r.files, cur[p].currentVersion, op[p].steps)) = 0
         THEN /\ Return(p, "ok")
              /\ cur' = cur
         ELSE /\ pc' = [pc EXCEPT ![p] = "rm_begin"]
              /\ cur' = [cur EXCEPT ![p].todo =
                            ToRollback(r.files, cur[p].currentVersion, op[p].steps),
                                     ![p].all =
                            ToRollback(r.files, cur[p].currentVersion, op[p].steps)]
              /\ ret' = ret
    /\ UNCHANGED <<trip, fs, tableExists, records, schema, op, tx, cancelled, result, log, pre>>

\* mutant of HasDownScript: the check for a down-script is missing
HasDownScript_Unchecked(mig) == TRUE

\* mig.DownSQL == "" is "no down migration found"
HasDownScript(mig) == mig.DownSQL # NoSQL

\* rollbackMigration: m.db.BeginTxx, then the check of mig.DownSQL; the
\* return of "no down migration" leaves err nil, so the deferred function
\* does not call tx.Rollback()
RmBegin(p) ==
    /\ pc[p] = "rm_begin"
    /\ \E o \in Outcomes :
       /\ Observe(p, o)
       /\ IF o = "ok"
         THEN /\ tx' = [tx EXCEPT ![p] = [open |-> TRUE, writes |-> {}]]
              /\ log' = [log EXCEPT ![p] = Append(@, Event("begin", cur[p].ns, Mig(p).Version, TRUE))]
              /\ IF ~HasDownScript(Mig(p))
                 THEN Return(p, "nodown")
                 ELSE /\ pc' = [pc EXCEPT ![p] = "rm_exec"]
                      /\ ret' = ret
         ELSE /\ Return(p, "store")
              /\ UNCHANGED <<tx, log>>
    /\ UNCHANGED <<trip, fs, tableExists, records, schema, op, cur, result, pre>>

\* mutant of RmExec: the record is deleted although the down-script failed
RmExec_DeletesOnFailure(p) ==
    /\ pc[p] = "rm_exec"
    /\ \E o \in Outcomes :
       /\ Observe(p, o)
       /\ IF o = "ok"
          THEN /\ tx' = [tx EXCEPT ![p].writes = @ \cup {<<"down", cur[p].ns, Mig(p).Version>>}]
               /\ log' = [log EXCEPT ![p] = Append(@, Event("down", cur[p].ns, Mig(p).Version, TRUE))]
               /\ pc' = [pc EXCEPT ![p] = "rm_delete"]
               /\ UNCHANGED <<ret, records>>
          ELSE /\ RolledBack(p, <<Event("down", cur[p].ns, Mig(p).Version, FALSE)>>)
               /\ Return(p, "script")
               /\ records' = DeleteVersion(records, cur[p].ns, Mig(p).Version)
    /\ UNCHANGED <<trip, fs, tableExists, schema, op, cur, result, pre>>

\* rollbackMigration: tx.ExecContext(mig.DownSQL)
RmExec(p) ==
    /\ pc[p] = "rm_exec"
    /\ \E o \in Outcomes :
       /\ Observe(p, o)
       /\ IF o = "ok"
         THEN /\ tx' = [tx EXCEPT ![p].writes = @ \cup {<<"down", cur[p].ns, Mig(p).Version>>}]
              /\ log' = [log EXCEPT ![p] = Append(@, Event("down", cur[p].ns, Mig(p).Version, TRUE))]
              /\ pc' = [pc EXCEPT ![p] = "rm_delete"]
              /\ ret' = ret
         ELSE /\ RolledBack(p, <<Event("down", cur[p].ns, Mig(p).Version, FALSE)>>)
              /\ Return(p, "script")
    /\ UNCHANGED <<trip, fs, tableExists, records, schema, op, cur, result, pre>>

\* rollbackMigration: deleteVersion on m.db, before the commit
RmDelete(p) ==
    /\ pc[p] = "rm_delete"
    /\ \E o \in Outcomes :
       /\ Observe(p, o)
       /\ IF o = "ok" /\ tableExists
         THEN /\ records' = DeleteVersion(records, cur[p].ns, Mig(p).Version)
              /\ log' = [log EXCEPT ![p] = Append(@, Event("delete", cur[p].ns, Mig(p).Version, TRUE))]
              /\ pc' = [pc EXCEPT ![p] = "rm_commit"]
              /\ UNCHANGED <<tx, ret>>
         ELSE /\ RolledBack(p, <<>>)
              /\ Return(p, StoreError(o))
              /\ records' = records
    /\ UNCHANGED <<trip, fs, tableExists, schema, op, cur, result, pre>>

\* rollbackMigration: tx.Commit(), then the next migration to roll back
RmCommit(p) ==
    /\ pc[p] = "rm_commit"
    /\ \E o \in Outcomes :
       /\ Observe(p, o)
       /\ IF o = "ok"
         THEN /\ schema' = Commit(schema, tx[p].writes)
              /\ log' = [log EXCEPT ![p] = Append(@, Event("commit", cur[p].ns, Mig(p).Version, TRUE))]
              /\ cur' = [cur EXCEPT ![p].todo = Tail(@)]
              /\ IF Tail(cur[p].todo) = <<>>
                 THEN Return(p, "ok")
                 ELSE /\ pc' = [pc EXCEPT ![p] = "rm_begin"]
                      /\ ret' = ret
         ELSE /\ schema' = schema
              /\ log' = [log EXCEPT ![p] = Append(@, Event("commit", cur[p].ns, Mig(p).Version, FALSE))]
              /\ Return(p, "commit")
              /\ cur' = cur
    /\ tx' = [tx EXCEPT ![p] = NoTx]
    /\ UNCHANGED <<trip, fs, tableExists, records, op, result, pre>>

(* ------------------------------------------------------------------ *)
(* Version, Status                                                     *)
(* ------------------------------------------------------------------ *)

\* a public operation that is one step of the model: it starts and returns r
\* and value, having made the calls listed in events
Atomic(p, call, r, value, events) ==
    /\ pc[p] = "idle"
    /\ pc' = pc
    /\ op' = [op EXCEPT ![p] = call]
    /\ cur' = [cur EXCEPT ![p] = [NoLocals EXCEPT !.ns = call.ns]]
    /\ tx' = [tx EXCEPT ![p] = NoTx]
    /\ cancelled' = [cancelled EXCEPT ![p] = FALSE]
    /\ ret' = [ret EXCEPT ![p] = r]
    /\ result' = [result EXCEPT ![p] = value]
    /\ log' = [log EXCEPT ![p] = events]
    /\ pre' = [pre EXCEPT ![p] = [records |-> records, schema |-> schema,
                                  dirs |-> {ns \in Namespaces : fs[ns].exists}]]
    /\ UNCHANGED <<fs, records, schema>>

\* what Version returns while the store answers: the version of
\* getCurrentVersion, the dirty flag dropped
VersionResult(recs, ns) == GetCurrentVersion(recs, ns).version

VersionCall(ns) == [name |-> "Version", ns |-> ns, steps |-> 0, modules |-> <<>>]

Version(p, ns) ==
    /\ \E o \in {"ok", "fail"} :
         IF o = "ok" /\ tableExists
         THEN Atomic(p, VersionCall(ns), "ok",
                     [NoResult EXCEPT !.version = VersionResult(records, ns)], <<>>)
         ELSE Atomic(p, VersionCall(ns), StoreError(o), NoResult, <<>>)
    /\ UNCHANGED <<tableExists, trip>>

\* SELECT DISTINCT namespace FROM schema_migrations
RecordedNamespaces(recs) == {r.namespace : r \in recs}

\* the subdirectories of migrationsDir
DirectoryNamespaces == {ns \in Namespaces : fs[ns].exists}

\* the namespaces Status reports: those of the table, and those of the
\* directories when os.ReadDir(m.migrationsDir) succeeded
StatusNamespaces(recs, readDirOk) ==
    RecordedNamespaces(recs) \cup (IF readDirOk THEN DirectoryNamespaces ELSE {})

PendingCount(files, currentVersion) ==
    Cardinality({i \in 1..Len(files) : files[i].Version > currentVersion})

\* mutant of StatusOf: the dirty flag of the record is not reported
StatusOf_NeverDirty(recs, ns, files) ==
    [Namespace |-> ns,
     CurrentVersion |-> GetCurrentVersion(recs, ns).version,
     PendingCount |-> PendingCount(files, GetCurrentVersion(recs, ns).version),
     Dirty |-> FALSE]

\* the MigrationStatus of one namespace
StatusOf(recs, ns, files) ==
    [Namespace |-> ns,
     CurrentVersion |-> GetCurrentVersion(recs, ns).version,
     PendingCount |-> PendingCount(files, GetCurrentVersion(recs, ns).version),
     Dirty |-> GetCurrentVersion(recs, ns).dirty]

StatusCall == [name |-> "Status", ns |-> "core", steps |-> 0, modules |-> <<>>]

\* the map Status returns when every call succeeds but possibly
\* os.ReadDir(m.migrationsDir), whose error is dropped; k is the enumeration
\* order of the directories
StatusMap(recs, readDirOk, k) ==
    [ns \in StatusNamespaces(recs, readDirOk) |->
        StatusOf(recs, ns, LoadMigrationFiles(ns, k, FALSE).files)]

\* os.ReadDir(m.migrationsDir) as an event of the log
ReadDirEvent(readDirOk) == Event("readdir", "", 0, readDirOk)

\* Status.  fail names the call that fails: "table" (ensureMigrationsTable),
\* "query" (the namespace query or a getCurrentVersion), "load" (a
\* loadMigrationFiles of a listed namespace that has a directory) or "none"
Status(p) ==
    \E fail \in {"none", "table", "query", "load"} :
      /\ UNCHANGED trip
      /\ IF fail = "table"
         THEN /\ Atomic(p, StatusCall, "store", NoResult, <<>>)
              /\ tableExists' = tableExists
         ELSE /\ tableExists' = TRUE
              /\ IF fail = "query"
                 THEN Atomic(p, StatusCall, "store", NoResult, <<>>)
                 ELSE \E readDirOk \in BOOLEAN :
                      IF fail = "load" /\ \E ns \in StatusNamespaces(records, readDirOk) : fs[ns].exists
                      THEN Atomic(p, StatusCall, "load", NoResult, <<ReadDirEvent(readDirOk)>>)
                      ELSE \E m \in {StatusMap(records, readDirOk, k) : k \in EnumerationIndices} :
                              Atomic(p, StatusCall, "ok", [NoResult EXCEPT !.status = m],
                                     <<ReadDirEvent(readDirOk)>>)

(* ------------------------------------------------------------------ *)
(* Environment: crash of the process                                   *)
(* ------------------------------------------------------------------ *)

\* the process dies in the middle of an operation; the database rolls its
\* open transaction back
Crash(p) ==
    /\ Running(p)
    /\ Return(p, "crashed")
    /\ tx' = [tx EXCEPT ![p] = NoTx]
    /\ UNCHANGED <<trip, fs, tableExists, records, schema, op, cur, cancelled, result, log, pre>>

(* ------------------------------------------------------------------ *)
(* Specification: one caller, operations one after another             *)
(* ------------------------------------------------------------------ *)

\* the namespace the operations of Spec are called on
Focus == {"modA"}

Callers == {1}

\* the steps inside MigrateNamespace, MigrateAll and Rollback, and a crash
Step(p) ==
    \/ MnEnsure(p)
    \/ MnGetVersion(p)
    \/ MnLoad(p)
    \/ AmBegin(p)
    \/ AmMarkDirty(p)
    \/ AmExec(p)
    \/ AmMarkClean(p)
    \/ AmCommit(p)
    \/ RbGetVersion(p)
    \/ RbLoad(p)
    \/ RmBegin(p)
    \/ RmExec(p)
    \/ RmDelete(p)
    \/ RmCommit(p)
    \/ Crash(p)

Next ==
    \E p \in Callers :
        \/ \E ns \in Focus : StartMigrateNamespace(p, ns)
        \/ \E ns \in Focus, steps \in StepsArgs : StartRollback(p, ns, steps)
        \/ \E ns \in Focus : Version(p, ns)
        \/ Status(p)
        \/ Step(p)

Spec == Init /\ [][Next]_vars

(* ------------------------------------------------------------------ *)
(* Specification of one run: MigrateNamespace, Rollback, and           *)
(* MigrateNamespace again, each started when the one before returned   *)
(* nil                                                                 *)
(* ------------------------------------------------------------------ *)

TripMigrate(p, ns) ==
    /\ trip.stage \in {0, 2}
    /\ trip.stage = 2 => ret[p] = "ok"
    /\ Begin(p, MigrateNamespaceCall(ns), "mn_ensure")
    /\ trip' = IF trip.stage = 0 THEN [trip EXCEPT !.stage = 1]
               ELSE [trip EXCEPT !.stage = 3, !.mid = RecordsOf(records, ns)]

TripRollback(p, ns, steps) ==
    /\ trip.stage = 1
    /\ ret[p] = "ok"
    /\ Begin(p, RollbackCall(ns, steps), "rb_getver")
    /\ trip' = [trip EXCEPT !.stage = 2, !.steps = steps,
                            !.first = RecordsOf(records, ns)]

NextTrip ==
    \E p \in Callers :
        \/ \E ns \in Focus : TripMigrate(p, ns)
        \/ \E ns \in Focus, steps \in StepsArgs : TripRollback(p, ns, steps)
        \/ Step(p)

SpecTrip == Init /\ [][NextTrip]_vars

(* ------------------------------------------------------------------ *)
(* Specification of the coordinator: one caller, every operation, on   *)
(* "core" and two modules                                              *)
(* ------------------------------------------------------------------ *)

\* the directories of the coordinator's namespaces: none, or the complete
\* versions 1..n
PlainDirs == {NoDir} \cup {Dir(Base(n)) : n \in 1..MaxPlain}

\* the enabledModules arguments: no module, one, two in both orders, a
\* module twice, and lists that name "core" themselves
ModuleLists ==
    { <<>>, <<"modA">>, <<"modB">>, <<"modA", "modB">>, <<"modB", "modA">>,
      <<"modA", "modA">>, <<"core", "modB">>, <<"modA", "core">> }

InitAll ==
    /\ fs \in {Layout(c, a, b) : c \in PlainDirs, a \in PlainDirs, b \in PlainDirs}
    /\ Fresh

NextAll ==
    \E p \in Callers :
        \/ \E modules \in ModuleLists : StartMigrateAll(p, modules)
        \/ \E ns \in Focus : StartMigrateNamespace(p, ns)
        \/ \E ns \in Focus, steps \in 1..MaxPlain : StartRollback(p, ns, steps)
        \/ \E ns \in Focus : Version(p, ns)
        \/ Status(p)
        \/ Step(p)

SpecAll == InitAll /\ [][NextAll]_vars

(* ------------------------------------------------------------------ *)
(* Specification of two callers of MigrateNamespace on one namespace,  *)
(* their steps interleaved                                             *)
(* ------------------------------------------------------------------ *)

\* the steps inside MigrateNamespace
ApplyStep(p) ==
    \/ MnEnsure(p)
    \/ MnGetVersion(p)
    \/ MnLoad(p)
    \/ AmBegin(p)
    \/ AmMarkDirty(p)
    \/ AmExec(p)
    \/ AmMarkClean(p)
    \/ AmCommit(p)

InitRace ==
    /\ fs \in {Layout(NoDir, Dir(Base(n)), NoDir) : n \in 1..MaxRace}
    /\ Fresh

NextRace ==
    \E p \in Procs :
        \/ \E ns \in Focus : StartMigrateNamespace(p, ns)
        \/ ApplyStep(p)

SpecRace == InitRace /\ [][NextRace]_vars

(* ------------------------------------------------------------------ *)
(* Specification of one caller and a migrations directory that loses   *)
(* the subdirectory of a namespace between or during operations        *)
(* ------------------------------------------------------------------ *)

\* the directory of the namespace is removed from migrationsDir: from now
\* on os.Stat in loadMigrationFiles answers that it does not exist
RemoveDirectory(ns) ==
    /\ fs[ns].exists
    /\ fs' = [fs EXCEPT ![ns] = NoDir]
    /\ UNCHANGED <<tableExists, records, schema, pc, op, cur, tx, cancelled, ret,
                   result, log, pre, trip>>

InitGone ==
    /\ fs \in {Layout(NoDir, a, NoDir) : a \in {NoDir} \cup {Dir(Base(n)) : n \in 1..MaxRace}}
    /\ Fresh

NextGone ==
    \/ \E p \in Callers :
          \/ \E ns \in Focus : StartMigrateNamespace(p, ns)
          \/ \E ns \in Focus : Version(p, ns)
          \/ Status(p)
          \/ ApplyStep(p)
    \/ \E ns \in Focus : RemoveDirectory(ns)

SpecGone == InitGone /\ [][NextGone]_vars

(* ------------------------------------------------------------------ *)
(* Vocabulary of the properties                                        *)
(* ------------------------------------------------------------------ *)

Max(S) == CHOOSE x \in S : \A y \in S : y <= x

\* the highest version recorded for a namespace, 0 when there is none
MaxVersionOf(recs, ns) == Max({r.version : r \in RecordsOf(recs, ns)} \cup {0})

\* the record with the namespace's highest version is dirty
TopDirty(recs, ns) ==
    \E r \in RecordsOf(recs, ns) :
        r.dirty /\ \A q \in RecordsOf(recs, ns) : q.version <= r.version

\* the highest version recorded clean for a namespace, 0 when there is none
HighestClean(recs, ns) ==
    Max({r.version : r \in {q \in RecordsOf(recs, ns) : ~q.dirty}} \cup {0})

\* the rows of one version of a namespace
RowsOf(recs, ns, v) == {r \in recs : r.namespace = ns /\ r.version = v}

\* the versions for which the directory of a namespace holds a script
LoadedVersions(ns) ==
    {Atoi(f.prefix).val :
        f \in {g \in fs[ns].files :
                  /\ ~g.isDir
                  /\ Len(g.desc) >= 1
                  /\ Atoi(g.prefix).ok
                  /\ g.suffix \in {".up.sql", ".down.sql"}}}

\* the executions of scripts of the caller's operation, in order
Scripts(p, dir) == SelectSeq(log[p], LAMBDA e : e.ev = dir)

\* the operation did not end by a failure of the store, of the filesystem
\* or of the process
NoFault(p) == ret[p] \notin {"none", "store", "load", "crashed"}

Ended(p, name) == pc[p] = "idle" /\ op[p].name = name /\ ret[p] # "none"

\* an up-script of the caller's MigrateNamespace failed: the operation is
\* over, and k is the place of the failing migration among the pending ones
UpFailedAt(p, k) ==
    /\ pc[p] = "idle"
    /\ op[p].name = "MigrateNamespace"
    /\ k \in 1..Len(cur[p].all)
    /\ \E i \in 1..Len(log[p]) :
          /\ log[p][i].ev = "up"
          /\ ~log[p][i].ok
          /\ log[p][i].v = cur[p].all[k].Version

(* ------------------------------------------------------------------ *)
(* Properties                                                          *)
(* ------------------------------------------------------------------ *)

\* C1: in every reachable state a record with dirty = false exists only if
\* the transaction that executed that version's up-script has committed.
C1_CleanOnlyIfCommitted ==
    \A r \in records : ~r.dirty => <<r.namespace, r.version>> \in schema

\* C2: when the record with the highest version of the namespace is dirty,
\* MigrateNamespace and Rollback execute no script, begin no transaction,
\* change no record, and return the dirty-state error (or the error of the
\* store call that failed before the check).
C2_DirtyBlocks ==
    \A p \in Procs :
        (op[p].name \in {"MigrateNamespace", "Rollback"}
            /\ TopDirty(pre[p].records, op[p].ns))
        => /\ log[p] = <<>>
           /\ ~tx[p].open
           /\ records = pre[p].records
           /\ schema = pre[p].schema
           /\ pc[p] \in {"idle", "mn_ensure", "mn_getver", "rb_getver"}
           /\ (pc[p] = "idle" /\ NoFault(p)) => ret[p] = "dirty"

C2_Witness ==
    /\ Ended(1, "Rollback")
    /\ op[1].steps >= 1
    /\ ret[1] = "dirty"
    /\ TopDirty(records, op[1].ns)
    /\ \E r \in RecordsOf(records, op[1].ns) : ~r.dirty

\* C3: when the up-script of pending version v fails in MigrateNamespace,
\* the call returns an error, every pending version before v has a clean
\* record, (N, v) is recorded dirty, the transaction of v is rolled back and
\* nothing of it is visible, and no later pending version has a script
\* executed or a record written.
C3_FailedApply ==
    \A p \in Procs : \A k \in 1..Len(cur[p].all) :
        UpFailedAt(p, k) =>
            LET ns == op[p].ns
                all == cur[p].all
            IN  /\ ret[p] = "script"
                /\ \A j \in 1..(k - 1) : Record(ns, all[j].Version, FALSE) \in records
                /\ RowsOf(records, ns, all[k].Version) = {Record(ns, all[k].Version, TRUE)}
                /\ tx[p] = NoTx
                /\ log[p][Len(log[p])].ev = "rollback"
                /\ schema = pre[p].schema \cup {<<ns, all[j].Version>> : j \in 1..(k - 1)}
                /\ \A j \in (k + 1)..Len(all) :
                      /\ RowsOf(records, ns, all[j].Version) = {}
                      /\ \A i \in 1..Len(log[p]) : log[p][i].v # all[j].Version

C3_Witness ==
    /\ UpFailedAt(1, 2)
    /\ Len(cur[1].all) >= 3

\* C4 as stated: after MigrateNamespace failed at the up-script of v, the
\* current version Version and Status report is the highest version with a
\* clean record, not v.
C4_ReportsLastClean ==
    \A p \in Procs : \A k \in 1..Len(cur[p].all) :
        UpFailedAt(p, k) =>
            /\ VersionResult(records, op[p].ns) = HighestClean(records, op[p].ns)
            /\ StatusOf(records, op[p].ns, <<>>).CurrentVersion
                  = HighestClean(records, op[p].ns)

\* C4 amended: after MigrateNamespace failed at the up-script of v, Version
\* and Status report v itself, Status with dirty = true; the highest version
\* with a clean record is the last version whose apply unit completed (the
\* version current before the call when none did).
C4_ReportsFailedVersion ==
    \A p \in Procs : \A k \in 1..Len(cur[p].all) :
        UpFailedAt(p, k) =>
            LET ns == op[p].ns
                all == cur[p].all
            IN  /\ VersionResult(records, ns) = all[k].Version
                /\ StatusOf(records, ns, <<>>).CurrentVersion = all[k].Version
                /\ StatusOf(records, ns, <<>>).Dirty
                /\ HighestClean(records, ns) =
                      IF k = 1 THEN MaxVersionOf(pre[p].records, ns)
                      ELSE all[k - 1].Version

C4_Witness ==
    /\ UpFailedAt(1, 2)
    /\ HighestClean(records, op[1].ns) = cur[1].all[1].Version
    /\ HighestClean(records, op[1].ns) >= 1

\* C5: Version returns the highest version recorded for the namespace,
\* clean or dirty, and 0 with no error when the namespace has no record.
C5_VersionIsMax ==
    \A p \in Procs :
        (Ended(p, "Version") /\ ret[p] # "store")
        => /\ ret[p] = "ok"
           /\ result[p].version = MaxVersionOf(records, op[p].ns)

\* C6: one MigrateNamespace executes up-scripts of pending versions only,
\* in strictly ascending version order, each at most once and none skipped,
\* and when it returns nil it has executed exactly the pending versions,
\* whatever the order the directory was enumerated in.
C6_AscendingApply ==
    \A p \in Procs :
        op[p].name = "MigrateNamespace" =>
            LET ups == Scripts(p, "up")
                ns == op[p].ns
                pending == {v \in LoadedVersions(ns) : v > MaxVersionOf(pre[p].records, ns)}
            IN  /\ \A i, j \in 1..Len(ups) : i < j => ups[i].v < ups[j].v
                /\ \A i \in 1..Len(ups) :
                      /\ ups[i].v \in pending
                      /\ ups[i].ns = ns
                      /\ \A w \in pending : w < ups[i].v => \E j \in 1..(i - 1) : ups[j].v = w
                /\ (pc[p] = "idle" /\ ret[p] = "ok")
                      => /\ {ups[i].v : i \in 1..Len(ups)} = pending
                         /\ \A i \in 1..Len(ups) : ups[i].ok

C6_Witness ==
    /\ Ended(1, "MigrateNamespace")
    /\ ret[1] = "ok"
    /\ Len(Scripts(1, "up")) >= 3

\* no file of the namespace has a version above the one current when the
\* caller's MigrateNamespace began
NoPendingAtStart(p) ==
    /\ op[p].name = "MigrateNamespace"
    /\ \A v \in LoadedVersions(op[p].ns) : v <= MaxVersionOf(pre[p].records, op[p].ns)

\* C7 as stated: MigrateNamespace on a namespace without pending migration
\* returns no error, executes no script and changes no record.
C7_NoPendingIsNoOp ==
    \A p \in Procs :
        (NoPendingAtStart(p) /\ pc[p] = "idle" /\ NoFault(p))
        => /\ ret[p] = "ok"
           /\ log[p] = <<>>
           /\ records = pre[p].records

\* C7 amended: MigrateNamespace on a namespace without pending migration
\* executes no script and changes no record; it returns no error when the
\* namespace is clean and the dirty-state error when its current record is
\* dirty.
C7_NoPendingChangesNothing ==
    \A p \in Procs :
        NoPendingAtStart(p)
        => /\ log[p] = <<>>
           /\ ~tx[p].open
           /\ records = pre[p].records
           /\ schema = pre[p].schema
           /\ (pc[p] = "idle" /\ NoFault(p))
                 => ret[p] = IF TopDirty(pre[p].records, op[p].ns) THEN "dirty" ELSE "ok"

C7_Witness ==
    /\ Ended(1, "MigrateNamespace")
    /\ NoPendingAtStart(1)
    /\ ret[1] = "ok"
    /\ RecordsOf(records, op[1].ns) # {}

\* the caller's Rollback began the rollback unit of the k-th selected
\* migration, which has no down-script
NoDownAt(p, k) ==
    /\ op[p].name = "Rollback"
    /\ k \in 1..Len(cur[p].all)
    /\ cur[p].all[k].DownSQL = NoSQL
    /\ \E i \in 1..Len(log[p]) :
          log[p][i].ev = "begin" /\ log[p][i].v = cur[p].all[k].Version

\* C8: when Rollback reaches a selected version v without down-script, it
\* returns the missing-down-script error, the record of v is untouched, no
\* version below v is rolled back, and the versions rolled back before in
\* the same call stay deleted.
C8_MissingDownScript ==
    \A p \in Procs : \A k \in 1..Len(cur[p].all) :
        NoDownAt(p, k) =>
            LET ns == op[p].ns
                all == cur[p].all
            IN  /\ pc[p] = "idle"
                /\ ret[p] = "nodown"
                /\ RowsOf(records, ns, all[k].Version) = RowsOf(pre[p].records, ns, all[k].Version)
                /\ all[k].Version >= 1 => Record(ns, all[k].Version, FALSE) \in records
                /\ Scripts(p, "down") = SelectSeq(Scripts(p, "down"), LAMBDA e : e.ok)
                /\ {e.v : e \in {Scripts(p, "down")[i] : i \in 1..Len(Scripts(p, "down"))}}
                      = {all[j].Version : j \in 1..(k - 1)}
                /\ \A j \in (k + 1)..Len(all) :
                      RowsOf(records, ns, all[j].Version)
                          = RowsOf(pre[p].records, ns, all[j].Version)
                /\ \A j \in 1..(k - 1) : RowsOf(records, ns, all[j].Version) = {}

C8_Witness ==
    /\ NoDownAt(1, 2)
    /\ Len(cur[1].all) >= 3
    /\ ret[1] = "nodown"
    /\ RowsOf(pre[1].records, op[1].ns, cur[1].all[1].Version) # {}

\* the directory of the namespace holds the versions 1..n, each with its up-
\* and its down-script, and nothing else
CompleteDir(ns, n) == fs[ns] = Dir(Base(n))

\* C9: with files 1..n that all have both scripts, MigrateNamespace, then
\* Rollback with steps = n, each returning nil, leave the namespace without
\* record, and MigrateNamespace again produces the record set of the first
\* one: the versions 1..n, all clean.
C9_RoundTrip ==
    \A p \in Procs : \A n \in 1..MaxVersion :
        (trip.stage = 3 /\ Ended(p, "MigrateNamespace") /\ ret[p] = "ok"
            /\ CompleteDir(op[p].ns, n) /\ trip.steps = n)
        => /\ trip.mid = {}
           /\ RecordsOf(records, op[p].ns) = trip.first
           /\ trip.first = {Record(op[p].ns, v, FALSE) : v \in 1..n}

C9_Witness ==
    /\ trip.stage = 3
    /\ Ended(1, "MigrateNamespace")
    /\ ret[1] = "ok"
    /\ CompleteDir(op[1].ns, 3)
    /\ trip.steps = 3

\* C10: the keys of the map Status returns are the namespaces with a record
\* together with the subdirectories of the migrations root, and a namespace
\* that is only a directory is reported with currentVersion 0, not dirty and
\* pendingCount the number of versions found in its directory.
C10_StatusUnion ==
    \A p \in Procs :
        (Ended(p, "Status") /\ ret[p] = "ok")
        => /\ DOMAIN result[p].status = RecordedNamespaces(records) \cup DirectoryNamespaces
           /\ \A ns \in DOMAIN result[p].status :
                 ns \notin RecordedNamespaces(records)
                 => /\ result[p].status[ns].CurrentVersion = 0
                    /\ ~result[p].status[ns].Dirty
                    /\ result[p].status[ns].PendingCount
                          = Cardinality({v \in LoadedVersions(ns) : v >= 1})

(* ------------------------------------------------------------------ *)
(* Properties of MigrateAll                                            *)
(* ------------------------------------------------------------------ *)

\* the namespaces a MigrateAll call attempts, in order
AllOrder(p) == <<"core">> \o op[p].modules

\* the number of attempts of the caller's MigrateAll that returned nil
\* before the attempt at work (or the last one, when the call is over)
Done(p) == Len(op[p].modules) - Len(cur[p].rest)

\* the first place of a namespace in the order of the attempts
FirstIndex(p, ns) ==
    CHOOSE i \in 1..Len(AllOrder(p)) :
        AllOrder(p)[i] = ns /\ \A j \in 1..(i - 1) : AllOrder(p)[j] # ns

\* the versions of a namespace that were pending when the caller's
\* operation began
PendingAtStart(p, ns) ==
    {v \in LoadedVersions(ns) : v > MaxVersionOf(pre[p].records, ns)}

\* every version of the namespace pending when the operation began is
\* recorded clean with its script committed, and no record was lost
Migrated(p, ns) ==
    /\ \A v \in PendingAtStart(p, ns) :
          Record(ns, v, FALSE) \in records /\ <<ns, v>> \in schema
    /\ RecordsOf(pre[p].records, ns) \subseteq records

\* the operation left the namespace alone: no call of an apply unit, no
\* change of its records or of its schema
Untouched(p, ns) ==
    /\ \A i \in 1..Len(log[p]) : log[p][i].ns # ns
    /\ RecordsOf(records, ns) = RecordsOf(pre[p].records, ns)
    /\ {x \in schema : x[1] = ns} = {x \in pre[p].schema : x[1] = ns}

\* C11: MigrateAll attempts "core" first, whatever the list of modules, and
\* no call of an apply unit of a listed namespace is made before the
\* attempt on "core" has returned nil.
C11_CoreFirst ==
    \A p \in Procs :
        op[p].name = "MigrateAll" =>
            /\ Done(p) \in 0..Len(op[p].modules)
            /\ Done(p) = 0 =>
                  /\ cur[p].ns = "core"
                  /\ \A i \in 1..Len(log[p]) : log[p][i].ns = "core"
            /\ Done(p) >= 1 =>
                  /\ cur[p].ns = op[p].modules[Done(p)]
                  /\ Migrated(p, "core")
                  /\ ~TopDirty(records, "core")
            /\ \A i, j \in 1..Len(log[p]) :
                  (i < j /\ log[p][j].ns = "core") => log[p][i].ns = "core"

C11_Witness ==
    /\ Ended(1, "MigrateAll")
    /\ ret[1] = "ok"
    /\ op[1].modules = <<"modA">>
    /\ \E i, j \in 1..Len(log[1]) :
          /\ i < j
          /\ log[1][i] = Event("commit", "core", 1, TRUE)
          /\ log[1][j] = Event("up", "modA", 1, TRUE)

\* C12: MigrateAll migrates core and then the listed namespaces in the order
\* of the list, and stops at the first attempt that fails: the call returns
\* an error, the namespaces later in the order are left untouched, and the
\* namespaces migrated before keep their applied records.
C12_StopsAtFirstFailure ==
    \A p \in Procs :
        op[p].name = "MigrateAll" =>
            LET order == AllOrder(p)
                at == Done(p) + 1
                earlier == {order[i] : i \in 1..Done(p)}
                later == {order[i] : i \in (at + 1)..Len(order)}
                            \ (earlier \cup {order[at]})
            IN  /\ \A i, j \in 1..Len(log[p]) :
                      i < j => FirstIndex(p, log[p][i].ns) <= FirstIndex(p, log[p][j].ns)
                /\ \A ns \in later : Untouched(p, ns)
                /\ \A ns \in earlier : Migrated(p, ns) /\ ~TopDirty(records, ns)
                /\ (pc[p] = "idle" /\ ret[p] = "ok") =>
                      /\ at = Len(order)
                      /\ Migrated(p, order[at])
                /\ (pc[p] = "idle" /\ at < Len(order)) => ret[p] # "ok"

C12_Witness ==
    /\ Ended(1, "MigrateAll")
    /\ op[1].modules = <<"modA", "modB">>
    /\ cur[1].ns = "modA"
    /\ ret[1] = "script"
    /\ Record("core", 1, FALSE) \in records
    /\ Record("core", 1, FALSE) \notin pre[1].records
    /\ PendingAtStart(1, "modB") # {}
    /\ Untouched(1, "modB")

\* C13: when loading the migration files of a listed namespace other than
\* "core" fails in a MigrateAll call, the other listed namespaces, those
\* after it included, are still migrated (those that were not dirty when
\* the call began).
C13_LoadErrorNotFatal ==
    \A p \in Procs :
        (Ended(p, "MigrateAll") /\ ret[p] = "load" /\ cur[p].ns # "core")
        => \A i \in 1..Len(op[p].modules) :
              LET ns == op[p].modules[i] IN
              (ns # cur[p].ns /\ ~TopDirty(pre[p].records, ns)) => Migrated(p, ns)

(* ------------------------------------------------------------------ *)
(* Properties of Status, of the dirty state, of Rollback               *)
(* ------------------------------------------------------------------ *)

\* C14: Status changes no migration record and executes no script, and with
\* a dirty namespace it returns its result without error (unless a call of
\* the store or of the filesystem failed), reporting dirty = true for it.
C14_StatusReadOnly ==
    \A p \in Procs :
        Ended(p, "Status")
        => /\ records = pre[p].records
           /\ schema = pre[p].schema
           /\ \A i \in 1..Len(log[p]) : log[p][i].ev = "readdir"
           /\ ~tx[p].open
           /\ NoFault(p) =>
                 /\ ret[p] = "ok"
                 /\ \A ns \in Namespaces :
                       TopDirty(records, ns) =>
                          /\ ns \in DOMAIN result[p].status
                          /\ result[p].status[ns].Dirty
                          /\ result[p].status[ns].CurrentVersion = MaxVersionOf(records, ns)

C14_Witness ==
    /\ Ended(1, "Status")
    /\ ret[1] = "ok"
    /\ TopDirty(records, "modA")
    /\ result[1].status["modA"].Dirty
    /\ result[1].status["modA"].CurrentVersion >= 2

\* C15: once an operation has returned leaving the current record of a
\* namespace dirty, every later operation of the sequence (MigrateNamespace,
\* MigrateAll, Rollback, Version, Status) leaves the records and the schema
\* of that namespace as they were and calls no apply or rollback unit on it:
\* the namespace stays dirty.
C15_DirtyNeverCleared ==
    \A p \in Procs : \A ns \in Namespaces :
        (op[p].name # "none" /\ TopDirty(pre[p].records, ns))
        => /\ Untouched(p, ns)
           /\ TopDirty(records, ns)
           /\ ~(tx[p].open /\ cur[p].ns = ns)

C15_Witness ==
    /\ Ended(1, "MigrateAll")
    /\ op[1].modules = <<"modB", "modA">>
    /\ TopDirty(pre[1].records, "modA")
    /\ cur[1].ns = "modA"
    /\ ret[1] = "dirty"
    /\ \E i \in 1..Len(log[1]) : log[1][i] = Event("commit", "modB", 1, TRUE)

(* ------------------------------------------------------------------ *)
(* Properties of concurrent callers                                    *)
(* ------------------------------------------------------------------ *)

\* the caller's MigrateNamespace executed and committed the up-script of
\* version v of the namespace
Applied(p, ns, v) ==
    /\ op[p].name = "MigrateNamespace"
    /\ op[p].ns = ns
    /\ \E i, j \in 1..Len(log[p]) :
          /\ i < j
          /\ log[p][i] = Event("up", ns, v, TRUE)
          /\ log[p][j] = Event("commit", ns, v, TRUE)

\* C16: nothing but the dirty flag keeps two callers apart: a caller gets
\* past its read of the current version exactly when the record it reads
\* is not dirty, whatever the other caller is doing, and so the state in
\* which both callers have executed and committed the up-script of the
\* same version is reachable (the witness).
C16_DirtyFlagIsOnlyGuard ==
    [][\A p \in Procs :
          (pc[p] = "mn_getver" /\ pc'[p] = "mn_load")
          => /\ ~TopDirty(records, cur[p].ns)
             /\ cur'[p].currentVersion = MaxVersionOf(records, cur[p].ns)]_vars

C16_Witness ==
    /\ pc[1] = "idle" /\ ret[1] = "ok" /\ Applied(1, "modA", 1)
    /\ pc[2] = "idle" /\ ret[2] = "ok" /\ Applied(2, "modA", 1)

(* ------------------------------------------------------------------ *)
(* Properties of Rollback                                              *)
(* ------------------------------------------------------------------ *)

\* the loaded versions of the namespace that are not above the version
\* current when the caller's operation began
Reversible(p, ns) ==
    {v \in LoadedVersions(ns) : v <= MaxVersionOf(pre[p].records, ns)}

\* the number of versions of S above v
Above(S, v) == Cardinality({w \in S : w > v})

\* the n highest versions of S (all of S when it has fewer, none when n <= 0)
Highest(S, n) == {v \in S : Above(S, v) < n}

\* C17: for a clean namespace with current version c > 0, Rollback executes
\* the down-scripts of the min(steps, k) highest loaded versions <= c and of
\* no other, in strictly descending order, and when it returns nil it has
\* executed all of them and deleted exactly their records; with steps <= 0
\* it executes nothing and changes no record.
C17_RollbackSelection ==
    \A p \in Procs :
        (op[p].name = "Rollback"
            /\ ~TopDirty(pre[p].records, op[p].ns)
            /\ MaxVersionOf(pre[p].records, op[p].ns) > 0)
        => LET ns == op[p].ns
               downs == Scripts(p, "down")
               chosen == Highest(Reversible(p, ns), op[p].steps)
           IN  /\ \A i \in 1..Len(downs) :
                     /\ downs[i].ns = ns
                     /\ downs[i].v \in chosen
                     /\ Above(Reversible(p, ns), downs[i].v) = i - 1
               /\ \A r \in pre[p].records :
                     (r.namespace # ns \/ r.version \notin chosen) => r \in records
               /\ records \subseteq pre[p].records
               /\ (pc[p] = "idle" /\ ret[p] = "ok") =>
                     /\ {downs[i].v : i \in 1..Len(downs)} = chosen
                     /\ \A i \in 1..Len(downs) : downs[i].ok
                     /\ records = {r \in pre[p].records :
                                      r.namespace # ns \/ r.version \notin chosen}
               /\ op[p].steps <= 0 => (log[p] = <<>> /\ records = pre[p].records)

C17_Witness ==
    /\ Ended(1, "Rollback")
    /\ ret[1] = "ok"
    /\ op[1].steps = 2
    /\ RecordsOf(pre[1].records, "modA") = {Record("modA", v, FALSE) : v \in 1..3}
    /\ RecordsOf(records, "modA") = {Record("modA", 1, FALSE)}
    /\ Len(Scripts(1, "down")) = 2

\* the down-script of the k-th selected migration of the caller's Rollback
\* failed
DownFailedAt(p, k) ==
    /\ op[p].name = "Rollback"
    /\ k \in 1..Len(cur[p].all)
    /\ \E i \in 1..Len(log[p]) :
          log[p][i] = Event("down", op[p].ns, cur[p].all[k].Version, FALSE)

\* C18: when the down-script of version v fails in Rollback, the call is over
\* with the error, the script's transaction is rolled back and nothing of it
\* is committed, the record of v is as before the call, no lower version is
\* attempted, and the versions rolled back earlier in the call stay deleted.
C18_FailedDownScript ==
    \A p \in Procs : \A k \in 1..Len(cur[p].all) :
        DownFailedAt(p, k) =>
            LET ns == op[p].ns
                all == cur[p].all
            IN  /\ pc[p] = "idle"
                /\ ret[p] = "script"
                /\ tx[p] = NoTx
                /\ log[p][Len(log[p])].ev = "rollback"
                /\ RowsOf(records, ns, all[k].Version)
                      = RowsOf(pre[p].records, ns, all[k].Version)
                /\ schema = pre[p].schema \ {<<ns, all[j].Version>> : j \in 1..(k - 1)}
                /\ \A j \in (k + 1)..Len(all) :
                      /\ RowsOf(records, ns, all[j].Version)
                            = RowsOf(pre[p].records, ns, all[j].Version)
                      /\ \A i \in 1..Len(log[p]) : log[p][i].v # all[j].Version
                /\ \A j \in 1..(k - 1) :
                      /\ RowsOf(records, ns, all[j].Version) = {}
                      /\ \E i \in 1..Len(log[p]) :
                            log[p][i] = Event("commit", ns, all[j].Version, TRUE)

C18_Witness ==
    /\ DownFailedAt(1, 2)
    /\ Len(cur[1].all) >= 3
    /\ RowsOf(pre[1].records, "modA", cur[1].all[1].Version) # {}
    /\ RowsOf(records, "modA", cur[1].all[2].Version)
          = {Record("modA", cur[1].all[2].Version, FALSE)}

\* C19: whenever a rollback unit is not between its delete and its commit
\* (so also after a crash or a failed commit), a record that Rollback has
\* removed belongs to a version whose down-script is committed: no version
\* is without its record while the effects of its up-script are still in
\* the schema.
C19_DeletedOnlyIfCommitted ==
    \A p \in Procs :
        (op[p].name = "Rollback" /\ pc[p] # "rm_commit")
        => \A r \in pre[p].records :
              (r \notin records /\ <<r.namespace, r.version>> \in pre[p].schema)
              => <<r.namespace, r.version>> \notin schema

(* ------------------------------------------------------------------ *)
(* Properties of the apply unit                                        *)
(* ------------------------------------------------------------------ *)

\* the caller's log holds an event ev of version v of its namespace
Logged(p, ev, v) ==
    \E i \in 1..Len(log[p]) :
        log[p][i].ev = ev /\ log[p][i].ns = cur[p].ns /\ log[p][i].v = v

\* C20: in an apply unit the write of the record (N, v) with dirty = true
\* comes before the execution of v's up-script: an up-script is executing or
\* executed only when that record exists, and the record stays, dirty, when
\* the script's transaction is rolled back or the process crashes during
\* the script.
C20_DirtyBeforeScript ==
    \A p \in Procs :
        op[p].name = "MigrateNamespace" =>
            /\ \A i \in 1..Len(log[p]) :
                  log[p][i].ev = "up" =>
                     /\ \E j \in 1..(i - 1) :
                           log[p][j] = Event("set_dirty", log[p][i].ns, log[p][i].v, TRUE)
                     /\ RowsOf(records, log[p][i].ns, log[p][i].v) # {}
            /\ pc[p] = "am_exec" => Record(cur[p].ns, Mig(p).Version, TRUE) \in records
            /\ \A v \in {log[p][i].v : i \in 1..Len(log[p])} :
                  (Logged(p, "set_dirty", v) /\ ~Logged(p, "set_clean", v))
                  => Record(cur[p].ns, v, TRUE) \in records

C20_Witness ==
    /\ Ended(1, "MigrateNamespace")
    /\ ret[1] = "crashed"
    /\ Len(log[1]) >= 2
    /\ log[1][Len(log[1])].ev = "set_dirty"
    /\ log[1][Len(log[1])].v >= 2
    /\ Record("modA", log[1][Len(log[1])].v, TRUE) \in records
    /\ <<"modA", log[1][Len(log[1])].v>> \notin schema

(* ------------------------------------------------------------------ *)
(* Properties of the dirty records                                     *)
(* ------------------------------------------------------------------ *)

\* the records of the namespace with dirty = true
DirtyRecords(recs, ns) == {r \in RecordsOf(recs, ns) : r.dirty}

\* C21: whatever calls one caller makes one after another, with failed
\* scripts, failed store calls and crashes at any step, every namespace has
\* at most one dirty record, and that record has the namespace's highest
\* version.
C21_OneDirtyOnTop ==
    \A ns \in Namespaces :
        /\ Cardinality(DirtyRecords(records, ns)) <= 1
        /\ \A r \in DirtyRecords(records, ns) : r.version = MaxVersionOf(records, ns)

C21_Witness ==
    /\ Ended(1, "MigrateNamespace")
    /\ ret[1] = "crashed"
    /\ DirtyRecords(records, "modA") = {Record("modA", 3, TRUE)}
    /\ Record("modA", 2, FALSE) \in records
    /\ Record("modA", 1, FALSE) \in pre[1].records

\* C22: also with two callers of MigrateNamespace at work on the same
\* namespace, a call gets past its dirty check only when no record of the
\* namespace is dirty: a dirty record is never hidden behind a higher clean
\* version.
C22_AnyDirtyBlocks ==
    [][\A p \in Procs :
          (pc[p] = "mn_getver" /\ pc'[p] = "mn_load")
          => DirtyRecords(records, cur[p].ns) = {}]_vars

\* the caller's MigrateNamespace is over because a call of the apply unit of
\* version v, made after the unit had written v's dirty marker, found the
\* context cancelled
CancelledInUnit(p, v) ==
    /\ op[p].name = "MigrateNamespace"
    /\ pc[p] = "idle"
    /\ cancelled[p]
    /\ cur[p].todo # <<>>
    /\ Mig(p).Version = v
    /\ Logged(p, "set_dirty", v)

\* C23: when the context is cancelled in an apply unit after the dirty
\* marker of version v was written, the unit's transaction is not committed
\* and the record (N, v) is still dirty.
C23_CancelKeepsDirty ==
    \A p \in Procs : \A v \in (0 - 1)..MaxVersion :
        CancelledInUnit(p, v) =>
            /\ tx[p] = NoTx
            /\ Event("commit", op[p].ns, v, TRUE) \notin
                  {log[p][i] : i \in 1..Len(log[p])}
            /\ Record(op[p].ns, v, TRUE) \in records

(* ------------------------------------------------------------------ *)
(* Properties of the transactions                                      *)
(* ------------------------------------------------------------------ *)

\* the places of the caller's log holding an event of the kinds evs
Places(p, evs) == {i \in 1..Len(log[p]) : log[p][i].ev \in evs}

\* C24: every execution of a script happens in the transaction its own unit
\* began: the begin of the same version comes before it with nothing but
\* the dirty marker in between, a call begins at most one transaction for a
\* version and executes its script at most once, and an open transaction
\* holds the script of the version at work and of no other.
C24_OneTransactionPerUnit ==
    \A p \in Procs :
        /\ \A i \in Places(p, {"up", "down"}) :
              \E b \in 1..(i - 1) :
                 /\ log[p][b] = Event("begin", log[p][i].ns, log[p][i].v, TRUE)
                 /\ \A j \in (b + 1)..(i - 1) : log[p][j].ev = "set_dirty"
        /\ \A i, j \in Places(p, {"begin"}) :
              i < j => <<log[p][i].ns, log[p][i].v>> # <<log[p][j].ns, log[p][j].v>>
        /\ \A i, j \in Places(p, {"up", "down"}) :
              i < j => <<log[p][i].ns, log[p][i].v>> # <<log[p][j].ns, log[p][j].v>>
        /\ tx[p].writes # {} => tx[p].open
        /\ Cardinality(tx[p].writes) <= 1
        /\ \A w \in tx[p].writes : w[2] = cur[p].ns /\ w[3] = Mig(p).Version

C24_Witness ==
    /\ Ended(1, "Rollback")
    /\ ret[1] = "ok"
    /\ Cardinality(Places(1, {"begin"})) = 3
    /\ Cardinality(Places(1, {"down"})) = 3
    /\ Cardinality(Places(1, {"commit"})) = 3

\* C25: when an apply or rollback unit has returned, on whatever path, the
\* transaction it began is ended: no operation that returned to its caller
\* leaves a transaction open.
C25_NoTransactionLeftOpen ==
    \A p \in Procs :
        (pc[p] = "idle" /\ ret[p] \notin {"none", "crashed"}) => ~tx[p].open

(* ------------------------------------------------------------------ *)
(* Properties of the errors                                            *)
(* ------------------------------------------------------------------ *)

\* C26: an operation in which a call of the store or of the filesystem
\* failed returns an error: no operation whose log holds a failed call
\* returns nil.
C26_NoFailureSwallowed ==
    \A p \in Procs :
        (pc[p] = "idle" /\ \E i \in 1..Len(log[p]) : ~log[p][i].ok)
        => ret[p] \notin {"none", "ok"}

\* C27: within one call every script is executed at most once, and the
\* execution that fails is the last of the call: the failed script is not
\* executed again, no other script is executed after it, and the call is
\* over.
C27_NoRetry ==
    \A p \in Procs :
        /\ \A i, j \in Places(p, {"up", "down"}) :
              i < j =>
                 \/ log[p][i].ev # log[p][j].ev
                 \/ log[p][i].ns # log[p][j].ns
                 \/ log[p][i].v # log[p][j].v
        /\ \A i \in Places(p, {"up", "down"}) :
              ~log[p][i].ok =>
                 /\ \A j \in Places(p, {"up", "down"}) : j <= i
                 /\ pc[p] = "idle"
                 /\ ret[p] = "script"

C27_Witness ==
    /\ Ended(1, "Rollback")
    /\ ret[1] = "script"
    /\ DownFailedAt(1, 1)
    /\ Len(cur[1].all) >= 2
    /\ Cardinality(Places(1, {"down"})) = 1
    /\ op[1].steps >= 2

\* the caller's Rollback ended, by a crash or by the failure of the
\* down-script, inside the rollback unit of version v: the unit had begun
\* its transaction and had not committed it
StoppedInRollbackOf(p, v) ==
    /\ op[p].name = "Rollback"
    /\ pc[p] = "idle"
    /\ ret[p] \in {"crashed", "script"}
    /\ cur[p].todo # <<>>
    /\ Mig(p).Version = v
    /\ Logged(p, "begin", v)
    /\ ~Logged(p, "commit", v)

\* C28: Rollback writes no dirty record, and when the process crashes or the
\* down-script fails while version v is being rolled back, the record
\* (N, v) is still there, clean, and the namespace is not dirty for the
\* calls that follow.
C28_RollbackLeavesNoMarker ==
    \A p \in Procs :
        op[p].name = "Rollback" =>
            /\ DirtyRecords(records, op[p].ns) \subseteq DirtyRecords(pre[p].records, op[p].ns)
            /\ \A v \in (0 - 1)..MaxVersion :
                  StoppedInRollbackOf(p, v) =>
                     /\ ~TopDirty(records, op[p].ns)
                     /\ RowsOf(records, op[p].ns, v) = RowsOf(pre[p].records, op[p].ns, v)
                     /\ \A r \in RowsOf(records, op[p].ns, v) : ~r.dirty

(* ------------------------------------------------------------------ *)
(* Properties of the versions without up-script or without record      *)
(* ------------------------------------------------------------------ *)

\* the versions for which the directory of a namespace holds an up-script
UpVersions(ns) ==
    {Atoi(f.prefix).val :
        f \in {g \in fs[ns].files :
                  /\ ~g.isDir
                  /\ Len(g.desc) >= 1
                  /\ Atoi(g.prefix).ok
                  /\ g.suffix = ".up.sql"}}

\* C29: a version with a down-script only is no migration: no record is
\* ever written for it, and Status does not count it as pending.
C29_DownOnlyIsNoMigration ==
    /\ \A r \in records : r.version \in UpVersions(r.namespace)
    /\ \A p \in Procs :
          (Ended(p, "Status") /\ ret[p] = "ok") =>
             \A ns \in DOMAIN result[p].status :
                result[p].status[ns].PendingCount
                   = Cardinality({v \in UpVersions(ns) : v > MaxVersionOf(records, ns)})

\* C30: Rollback executes the down-script only of versions that had a
\* record of the namespace when the call began.
C30_RollsBackAppliedOnly ==
    \A p \in Procs :
        op[p].name = "Rollback" =>
            \A i \in Places(p, {"down"}) :
                RowsOf(pre[p].records, log[p][i].ns, log[p][i].v) # {}

(* ------------------------------------------------------------------ *)
(* Properties of a store without the table, of a namespace without     *)
(* directory, and of the namespaces an operation leaves alone          *)
(* ------------------------------------------------------------------ *)

\* C31: on a store in which schema_migrations was never created, Rollback
\* returns no error and does nothing, and Version returns 0 and no error.
C31_NoTableIsNoError ==
    \A p \in Procs :
        (/\ ~tableExists
         /\ Ended(p, "Rollback") \/ Ended(p, "Version")
         /\ ret[p] \notin {"store", "crashed"})
        => /\ ret[p] = "ok"
           /\ op[p].name = "Version" => result[p].version = 0
           /\ op[p].name = "Rollback" => log[p] = <<>>

\* the directory of the namespace did not exist when the caller's
\* MigrateNamespace began
DirectoryMissing(p) ==
    /\ op[p].name = "MigrateNamespace"
    /\ op[p].ns \notin pre[p].dirs

\* the namespaces of a Status result that Status knew from their records
\* only: they had no directory when it was called
KnownFromRecordsOnly(p) ==
    {ns \in DOMAIN result[p].status : ns \notin pre[p].dirs}

\* C32 as stated: MigrateNamespace on a namespace without directory returns
\* no error, executes no script and changes no record, and Status reports
\* pendingCount = 0 for a namespace known only from its records.
C32_MissingDirectoryIsNoError ==
    \A p \in Procs :
        /\ (DirectoryMissing(p) /\ pc[p] = "idle" /\ ret[p] \notin {"none", "store"})
              => /\ ret[p] = "ok"
                 /\ log[p] = <<>>
                 /\ records = pre[p].records
        /\ (Ended(p, "Status") /\ ret[p] = "ok")
              => \A ns \in KnownFromRecordsOnly(p) : result[p].status[ns].PendingCount = 0

\* C32 amended: MigrateNamespace on a namespace without directory executes
\* no script and changes no record; it returns no error when the namespace
\* is clean and the dirty-state error when its current record is dirty;
\* Status reports pendingCount = 0 for a namespace known only from its
\* records.
C32_MissingDirectoryChangesNothing ==
    \A p \in Procs :
        /\ DirectoryMissing(p)
              => /\ log[p] = <<>>
                 /\ ~tx[p].open
                 /\ records = pre[p].records
                 /\ schema = pre[p].schema
                 /\ (pc[p] = "idle" /\ ret[p] \notin {"none", "store"})
                       => ret[p] = IF TopDirty(pre[p].records, op[p].ns) THEN "dirty" ELSE "ok"
        /\ (Ended(p, "Status") /\ ret[p] = "ok")
              => \A ns \in KnownFromRecordsOnly(p) : result[p].status[ns].PendingCount = 0

C32_Witness ==
    /\ Ended(1, "MigrateNamespace")
    /\ DirectoryMissing(1)
    /\ ret[1] = "ok"
    /\ RecordsOf(records, op[1].ns) # {}

\* what Status would report for the namespace in the present state, for
\* every enumeration order of its directory
StatusNow(ns) ==
    {StatusOf(records, ns, LoadMigrationFiles(ns, k, FALSE).files) : k \in EnumerationIndices}

\* C33: when MigrateNamespace returns without error the namespace is clean
\* and has no pending migration: its current record is not dirty, no file
\* of the namespace has a version above the current one, and Status reports
\* pendingCount = 0 and dirty = false for it.
C33_SuccessMeansUpToDate ==
    \A p \in Procs :
        (Ended(p, "MigrateNamespace") /\ ret[p] = "ok")
        => /\ ~TopDirty(records, op[p].ns)
           /\ \A v \in LoadedVersions(op[p].ns) : v <= MaxVersionOf(records, op[p].ns)
           /\ \A s \in StatusNow(op[p].ns) : s.PendingCount = 0 /\ ~s.Dirty

C33_Witness ==
    /\ Ended(1, "MigrateNamespace")
    /\ ret[1] = "ok"
    /\ Len(Scripts(1, "up")) >= 2
    /\ \E s \in StatusNow(op[1].ns) :
          s.CurrentVersion = MaxVersion /\ s.PendingCount = 0 /\ ~s.Dirty

\* the other namespaces than the one the caller's operation was called on
Others(p) == Namespaces \ {op[p].ns}

\* C34: MigrateNamespace and Rollback of one namespace leave the records
\* and the applied scripts of every other namespace as they were and
\* execute scripts of their namespace only, and they fail for a dirty state
\* only when the record of their own namespace is dirty.
C34_OtherNamespacesUntouched ==
    \A p \in Procs :
        op[p].name \in {"MigrateNamespace", "Rollback"}
        => /\ \A ns \in Others(p) : RecordsOf(records, ns) = RecordsOf(pre[p].records, ns)
           /\ {s \in schema : s[1] # op[p].ns} = {s \in pre[p].schema : s[1] # op[p].ns}
           /\ \A i \in 1..Len(log[p]) : log[p][i].ns = op[p].ns
           /\ ret[p] = "dirty" => TopDirty(pre[p].records, op[p].ns)

C34_Witness ==
    /\ Ended(1, "Rollback")
    /\ ret[1] = "ok"
    /\ Len(Scripts(1, "down")) >= 1
    /\ \E ns \in Others(1) : TopDirty(records, ns)
    /\ \E ns \in Others(1) : RowsOf(records, ns, op[1].steps) # {} /\ ~TopDirty(records, ns)

(* ------------------------------------------------------------------ *)
(* Properties of the loader and of setVersion                          *)
(* ------------------------------------------------------------------ *)

\* the script files of one direction the directory holds for a version
ScriptFiles(ns, v, suffix) ==
    {f \in fs[ns].files :
        /\ ~f.isDir
        /\ Len(f.desc) >= 1
        /\ Atoi(f.prefix).ok
        /\ Atoi(f.prefix).val = v
        /\ f.suffix = suffix}

\* what loadMigrationFiles can return for the directory of a namespace
Loaded(ns) ==
    {LoadMigrationFiles(ns, k, FALSE).files : k \in EnumerationIndices}

StrictlyAscending(files) ==
    \A i \in 1..Len(files), j \in 1..Len(files) :
        i < j => files[i].Version < files[j].Version

\* the MigrationFile carries a script of every direction the directory
\* holds for its version, and no other
Merged(ns, m) ==
    /\ IF ScriptFiles(ns, m.Version, ".up.sql") = {} THEN m.UpSQL = NoSQL
       ELSE \E f \in ScriptFiles(ns, m.Version, ".up.sql") : m.UpSQL = f.content
    /\ IF ScriptFiles(ns, m.Version, ".down.sql") = {} THEN m.DownSQL = NoSQL
       ELSE \E f \in ScriptFiles(ns, m.Version, ".down.sql") : m.DownSQL = f.content

\* C35: for every directory and enumeration order the loader returns a
\* sequence strictly ascending by version, with one MigrationFile for each
\* version that has a script, carrying its up-script and its down-script.
C35_LoaderSortsAndMerges ==
    \A ns \in Namespaces :
        \A files \in Loaded(ns) :
            /\ StrictlyAscending(files)
            /\ {files[i].Version : i \in 1..Len(files)} = LoadedVersions(ns)
            /\ \A i \in 1..Len(files) : Merged(ns, files[i])

C35_Witness ==
    /\ pc[1] = "am_begin"
    /\ cur[1].all \in Loaded(op[1].ns)
    /\ Len(cur[1].all) >= 2
    /\ Cardinality(ScriptFiles(op[1].ns, 1, ".up.sql")) = 2
    /\ ScriptFiles(op[1].ns, 1, ".down.sql") # {}
    /\ cur[1].all[1].Version = 1
    /\ cur[1].all[1].UpSQL # NoSQL
    /\ cur[1].all[1].DownSQL # NoSQL

\* C36: a file whose prefix is no non-negative integer gives no
\* MigrationFile, and no record of a negative version is written and no
\* script of a negative version executed.
C36_NegativePrefixSkipped ==
    /\ \A ns \in Namespaces :
          \A files \in Loaded(ns) :
             \A i \in 1..Len(files) : files[i].Version >= 0
    /\ \A r \in records : r.version >= 0
    /\ \A p \in Procs : \A i \in 1..Len(log[p]) : log[p][i].v >= 0

\* the step is a successful setVersion(ns, v, d) of caller p
SetVersionStep(p, ns, v, d) ==
    /\ Len(log'[p]) = Len(log[p]) + 1
    /\ log'[p][Len(log'[p])] = Event(IF d THEN "set_dirty" ELSE "set_clean", ns, v, TRUE)

\* C37: setVersion(N, v, d) is an idempotent upsert: after it there is
\* exactly one record (N, v), with dirty flag d, whether or not one
\* existed before; no other record is changed; a second call with the
\* same arguments would leave the records as they are.
C37_SetVersionIsUpsert ==
    [][\A p \in Procs, ns \in Namespaces, v \in 0..MaxVersion, d \in BOOLEAN :
          SetVersionStep(p, ns, v, d)
          => /\ RowsOf(records', ns, v) = {Record(ns, v, d)}
             /\ records' \ RowsOf(records', ns, v) = records \ RowsOf(records, ns, v)
             /\ SetVersion(records', ns, v, d) = records']_vars

C37_Witness ==
    /\ Logged(1, "set_dirty", 1)
    /\ Logged(1, "set_clean", 1)
    /\ Logged(2, "set_dirty", 1)
    /\ pc[2] = "am_exec"
    /\ Mig(2).Version = 1
    /\ RowsOf(records, "modA", 1) = {Record("modA", 1, TRUE)}

====
